---- MODULE Spec2Model ----
(***************************************************************************)
(* A model of generate_repo_knowledge_file, the single-repository          *)
(* aggregation routine of src/github_knowledge_builder.py: the state        *)
(* machine of its os.walk loop, its per-file filter chain, its size         *)
(* accounting and the final write of the knowledge file.                    *)
(*                                                                          *)
(* File and directory names are strings, inspected character by character   *)
(* (SubSeq) the way os.path.splitext, str.lower and str.lstrip do.  File    *)
(* contents are abstracted to their byte counts: the on-disk size and the   *)
(* size of what open(..., errors='ignore').read() returns, re-encoded.      *)
(* Console output is not modelled.                                          *)
(***************************************************************************)
EXTENDS Integers, Sequences, FiniteSets, TLC

(***************************************************************************)
(* Bounds of the model.                                                     *)
(***************************************************************************)
\* the repository holds at most MaxFiles files
MaxFiles == 3
\* max_output_size_kb and max_file_size_kb range over 1..MaxKB
MaxKB == 2

\* bytes per KB: max_output_size_kb * 1024, max_file_size_kb * 1024
KB == 1024

(***************************************************************************)
(* Strings.                                                                 *)
(***************************************************************************)
CharAt(s, i) == SubSeq(s, i, i)

InList(x, list) == \E i \in 1..Len(list) : list[i] = x

\* str.lower() on one character (ASCII letters)
LowerChar(c) ==
    CASE c = "A" -> "a" [] c = "B" -> "b" [] c = "C" -> "c" [] c = "D" -> "d"
      [] c = "E" -> "e" [] c = "F" -> "f" [] c = "G" -> "g" [] c = "H" -> "h"
      [] c = "I" -> "i" [] c = "J" -> "j" [] c = "K" -> "k" [] c = "L" -> "l"
      [] c = "M" -> "m" [] c = "N" -> "n" [] c = "O" -> "o" [] c = "P" -> "p"
      [] c = "Q" -> "q" [] c = "R" -> "r" [] c = "S" -> "s" [] c = "T" -> "t"
      [] c = "U" -> "u" [] c = "V" -> "v" [] c = "W" -> "w" [] c = "X" -> "x"
      [] c = "Y" -> "y" [] c = "Z" -> "z" [] OTHER -> c

RECURSIVE Lower(_)
Lower(s) == IF Len(s) = 0 THEN "" ELSE LowerChar(CharAt(s, 1)) \o Lower(Tail(s))

\* str.rfind('.'): the index of the last dot, 0 when there is none
LastDot(s) ==
    LET dots == {i \in 1..Len(s) : CharAt(s, i) = "."}
    IN  IF dots = {} THEN 0 ELSE CHOOSE i \in dots : \A j \in dots : j <= i

\* os.path.splitext(file_name)[1]: from the last dot on, unless only dots
\* precede it (a leading-dot name such as ".env" has no extension)
SplitExt(s) ==
    LET d == LastDot(s)
    IN  IF d > 0 /\ \E i \in 1..(d - 1) : CharAt(s, i) # "."
        THEN SubSeq(s, d, Len(s))
        ELSE ""

\* str.lstrip('.')
RECURSIVE LStripDots(_)
LStripDots(s) ==
    IF Len(s) > 0 /\ CharAt(s, 1) = "." THEN LStripDots(Tail(s)) ELSE s

\* A name the file system returns with a byte that is not UTF-8 reaches the
\* program as a lone surrogate (surrogateescape); "?" stands for that
\* character.  str.encode('utf-8') raises on it.
Surrogate == "?"
Encodable(s) == \A i \in 1..Len(s) : CharAt(s, i) # Surrogate

(***************************************************************************)
(* The policy lists of the source, entry by entry.                          *)
(***************************************************************************)
DefaultIncludeExtensions ==
    << ".txt", ".md", ".markdown", ".rst",
       ".py", ".js", ".ts", ".jsx", ".tsx", ".json", ".yaml", ".yml",
       ".html", ".css", ".scss", ".less", ".xml", ".vue", ".svelte",
       ".java", ".c", ".cpp", ".h", ".hpp", ".go", ".rs", ".php", ".sh", ".bash",
       ".rb", ".pl", ".sql", ".csv", ".tsv", ".toml", ".ini", ".cfg", ".conf",
       ".dockerfile", ".Dockerfile",
       ".env", ".sample",
       ".log" >>

DefaultExcludeDirs ==
    << ".git", ".svn", ".hg",
       "node_modules", "bower_components", "vendor",
       "build", "dist", "out", "target", ".idea", ".vscode",
       "__pycache__", ".pytest_cache",
       "obj", "bin",
       "logs",
       "tmp", "temp" >>

DefaultExcludeFiles ==
    << "package-lock.json", "yarn.lock", "pnpm-lock.yaml",
       "Pipfile.lock", "Gemfile.lock",
       ".DS_Store", "Thumbs.db",
       "npm-debug.log",
       "CVS" >>

code_extensions ==
    << ".py", ".js", ".ts", ".jsx", ".tsx", ".json", ".yaml", ".yml",
       ".html", ".css", ".scss", ".less", ".java", ".c", ".cpp", ".go", ".rs", ".php",
       ".sh", ".bash", ".rb", ".pl", ".sql", ".toml", ".ini", ".cfg", ".conf",
       ".dockerfile", ".Dockerfile" >>

\* an allow-list a caller passes as include_extensions
CallerIncludeExtensions == << ".PY", ".md" >>

(***************************************************************************)
(* The file system the run reads: a directory skeleton and the files that   *)
(* may lie in it.  Directory 0 is repo_path itself; its name is the         *)
(* parameter repo_name.                                                     *)
(***************************************************************************)
RootDir == 0
DirIds == 0..6

DirParent(d) ==
    CASE d = 1 -> 0 [] d = 2 -> 0 [] d = 3 -> 0
      [] d = 4 -> 1 [] d = 5 -> 1 [] d = 6 -> 2 [] OTHER -> 0

SubDirName(d) ==
    CASE d = 1 -> "src" [] d = 2 -> "build" [] d = 3 -> "docs"
      [] d = 4 -> "core" [] d = 5 -> "tmp" [] d = 6 -> "gen" [] OTHER -> ""

SubDirs(d) == {c \in DirIds : c # RootDir /\ DirParent(c) = d}

\* os.path.relpath(os.path.join(root, ""), repo_path), with its trailing separator
RECURSIVE DirRelPath(_)
DirRelPath(d) ==
    IF d = RootDir THEN "" ELSE DirRelPath(DirParent(d)) \o SubDirName(d) \o "/"

\* the proper ancestors of d, and d itself
RECURSIVE DirChain(_)
DirChain(d) == IF d = RootDir THEN {RootDir} ELSE {d} \cup DirChain(DirParent(d))

FileIds == 1..13

FileName(f) ==
    CASE f = 1 -> "a.py" [] f = 2 -> "b.PY" [] f = 3 -> "npm-debug.log"
      [] f = 4 -> "d.py" [] f = 5 -> "c.md" [] f = 6 -> "e.py"
      [] f = 7 -> "f.py" [] f = 8 -> "?.py" [] f = 9 -> "t.py"
      [] f = 10 -> "k.md" [] f = 11 -> "r.md" [] f = 12 -> "x.bin"
      [] OTHER -> ".env"

FileDir(f) ==
    CASE f \in {1, 2, 3} -> 0 [] f \in {4, 5, 6} -> 1 [] f \in {7, 8} -> 4
      [] f = 9 -> 5 [] f = 10 -> 6 [] OTHER -> 3

\* os.path.getsize: the bytes on disk
FileSize(f) ==
    CASE f = 1 -> 600 [] f = 2 -> 390 [] f = 4 -> 2040 [] f = 5 -> 1000
      [] OTHER -> 10

\* os.path.getsize raises OSError
StatFails(f) == f = 6

\* open()/read() raises
ReadFails(f) == f = 7

\* len(content.encode('utf-8')) of what read() returns: errors='ignore'
\* drops the bytes that are not UTF-8 and newline translation only shortens,
\* so it never exceeds the size on disk (file 5 holds 900 invalid bytes)
ContentBytes(f) == IF f = 5 THEN 100 ELSE FileSize(f)

FilesIn(tree, d) == {f \in tree : FileDir(f) = d}

(***************************************************************************)
(* The state of one run.                                                    *)
(*   parameters : repo_name, max_output_size_kb, max_file_size_kb,          *)
(*                include_extensions (exclude_dirs and exclude_files are    *)
(*                left to their defaults)                                   *)
(*   file system: tree, the files of the repository; output, the knowledge  *)
(*                file on disk                                              *)
(*   os.walk    : stack, the directories still to yield (one frame of       *)
(*                siblings per level); root, dirs, files, the tuple of the  *)
(*                directory being processed, files holding what the inner   *)
(*                loop has not reached yet                                  *)
(*   locals     : processed_content, current_size_bytes, skipped_count,     *)
(*                included_count                                            *)
(*   pc         : "walk" (os.walk is asked for its next directory),         *)
(*                "files" (inside the inner loop), "write", "done"          *)
(* History, read by the properties only: outcome (what the filter chain     *)
(* did with each file it examined), visited (the directories os.walk        *)
(* yielded), prev (the result of an earlier run on the same repository).    *)
(***************************************************************************)
VARIABLES repo_name, max_output_size_kb, max_file_size_kb, include_extensions,
          tree, output, stack, root, dirs, files,
          processed_content, current_size_bytes, skipped_count, included_count,
          pc, outcome, visited, prev

params == <<repo_name, max_output_size_kb, max_file_size_kb, include_extensions, tree>>
walk == <<stack, root, dirs, files>>
locals == <<processed_content, current_size_bytes, skipped_count, included_count>>
vars == <<params, walk, locals, output, pc, outcome, visited, prev>>

exclude_dirs == DefaultExcludeDirs
exclude_files == DefaultExcludeFiles

max_output_size_bytes == max_output_size_kb * KB

DirName(d) == IF d = RootDir THEN repo_name ELSE SubDirName(d)

(***************************************************************************)
(* The filter chain and the renderer.                                       *)
(***************************************************************************)
\* mutant: dirs is left as listed
KeptDirsUnfiltered(d) == SubDirs(d)

\* dirs[:] = [d for d in dirs if d not in exclude_dirs]
KeptDirs(d) == {c \in SubDirs(d) : ~InList(SubDirName(c), exclude_dirs)}

file_ext(f) == Lower(SplitExt(FileName(f)))

relative_path(f) == DirRelPath(FileDir(f)) \o FileName(f)

\* mutant: the name check applies only to files the extension check rejects
NameExcludedAfterExtension(f) ==
    InList(FileName(f), exclude_files) /\ ~InList(file_ext(f), include_extensions)

\* file_name in exclude_files
NameExcluded(f) == InList(FileName(f), exclude_files)

\* not (file_ext not in include_extensions)
ExtensionAllowed(f) == InList(file_ext(f), include_extensions)

\* mutant: the file size is compared with the output budget
OversizedAgainstOutputBudget(f) == FileSize(f) > max_output_size_kb * KB

\* file_size_bytes > max_file_size_kb * 1024
Oversized(f) == FileSize(f) > max_file_size_kb * KB

\* current_size_bytes + file_size_bytes > max_output_size_bytes
BudgetPreCheck(f) == current_size_bytes + FileSize(f) > max_output_size_bytes

\* the three-character Markdown code fence
Fence == "~~~"

\* lang: the extension without its dot, yml written yaml
Lang(ext) ==
    LET lang == LStripDots(ext)
    IN  IF lang = "dockerfile" THEN "dockerfile"
        ELSE IF lang = "yml" THEN "yaml"
        ELSE lang

\* the block appended for file f: the text before its content, the byte
\* count of the content, the text after it
Render(f) ==
    LET file_header == "## File: " \o relative_path(f) \o "\n\n"
    IN  IF InList(file_ext(f), code_extensions)
        THEN [file |-> f,
              head |-> file_header \o Fence \o Lang(file_ext(f)) \o "\n",
              content |-> ContentBytes(f),
              tail |-> "\n" \o Fence \o "\n\n"]
        ELSE [file |-> f,
              head |-> file_header,
              content |-> ContentBytes(f),
              tail |-> "\n\n"]

BlockBytes(b) == Len(b.head) + b.content + Len(b.tail)

\* "".join(processed_content).encode('utf-8') raises UnicodeEncodeError when
\* a block holds a character that cannot be encoded
CanEncode(blocks) == \A i \in 1..Len(blocks) : Encodable(blocks[i].head)

\* len("".join(processed_content).encode('utf-8'))
RECURSIVE JoinedBytes(_)
JoinedBytes(blocks) ==
    IF blocks = <<>> THEN 0 ELSE BlockBytes(Head(blocks)) + JoinedBytes(Tail(blocks))

\* current_size_bytes >= max_output_size_bytes, the post-check and the test
\* after the inner loop
BudgetReached(size) == size >= max_output_size_bytes

\* f"{size/1024:.1f}": tenths of a KB, rounded half to even
SizeKBText(size) ==
    LET q == (10 * size) \div KB
        r == (10 * size) % KB
        t == IF r > 512 \/ (r = 512 /\ q % 2 = 1) THEN q + 1 ELSE q
    IN  ToString(t \div 10) \o "." \o ToString(t % 10)

repo_header(count, size) ==
    "# Repository: " \o repo_name \o "\n\n"
    \o "**Repository Type**: GitHub Code Repository  \n"
    \o "**Purpose**: Knowledge base for LLM training on " \o repo_name \o " codebase  \n"
    \o "**Files Included**: " \o ToString(count) \o " files  \n"
    \o "**Total Size**: ~" \o SizeKBText(size) \o " KB\n\n"
    \o "## Repository Overview\n"
    \o "This knowledge base contains code, documentation, and configuration files from the "
    \o repo_name
    \o " repository to help understand its structure, patterns, and implementation details.\n\n"
    \o "---\n\n"

(***************************************************************************)
(* The run.                                                                 *)
(***************************************************************************)
NoOutcome == [f \in FileIds |-> "none"]
NoRun == [runs |-> 0, content |-> <<>>, halted |-> FALSE]

Init ==
    /\ repo_name \in {"repo", "build"}
    /\ max_output_size_kb \in 1..MaxKB
    /\ max_file_size_kb \in 1..MaxKB
    /\ include_extensions \in {DefaultIncludeExtensions, CallerIncludeExtensions}
    /\ tree \in {S \in SUBSET FileIds : Cardinality(S) <= MaxFiles}
    /\ output = [exists |-> FALSE, bytes |-> 0]
    /\ stack = << {RootDir} >>
    /\ root = RootDir
    /\ dirs = {}
    /\ files = {}
    /\ processed_content = <<>>
    /\ current_size_bytes = 0
    /\ skipped_count = 0
    /\ included_count = 0
    /\ pc = "walk"
    /\ outcome = NoOutcome
    /\ visited = {}
    /\ prev = NoRun

\* os.walk yields its next directory: any directory of the innermost pending
\* level (the listing order is the file system's), with its subdirectories
\* and files; the loop body starts by pruning dirs
WalkNext ==
    /\ pc = "walk"
    /\ stack # <<>>
    /\ \E d \in Head(stack) :
          /\ stack' = IF Head(stack) = {d} THEN Tail(stack)
                      ELSE << Head(stack) \ {d} >> \o Tail(stack)
          /\ root' = d
          /\ dirs' = KeptDirs(d)
          /\ files' = FilesIn(tree, d)
          /\ visited' = visited \cup {d}
    /\ pc' = "files"
    /\ UNCHANGED <<params, locals, output, outcome, prev>>

\* os.walk is exhausted
WalkEnd ==
    /\ pc = "walk"
    /\ stack = <<>>
    /\ pc' = "write"
    /\ UNCHANGED <<params, walk, locals, output, outcome, visited, prev>>

\* mutant: break where the source says continue
ContinueAsBreak(f) ==
    /\ files' = {}
    /\ pc' = "walk"
    /\ stack' = IF dirs = {} THEN stack ELSE << dirs >> \o stack
    /\ UNCHANGED <<root, dirs>>

\* continue: on to the next file of the directory
Continue(f) ==
    /\ files' = files \ {f}
    /\ pc' = "files"
    /\ UNCHANGED <<stack, root, dirs>>

\* mutant: the test after the inner loop is missing
AfterInnerLoopNoBreak(size, subdirs) ==
    /\ pc' = "walk"
    /\ stack' = IF subdirs = {} THEN stack ELSE << subdirs >> \o stack

\* what follows the inner loop, given the size and the dirs it left: the
\* test of line 159 breaks out of the walk, otherwise os.walk goes on and
\* descends into dirs
AfterInnerLoop(size, subdirs) ==
    IF BudgetReached(size)
    THEN /\ pc' = "write"
         /\ stack' = stack
    ELSE /\ pc' = "walk"
         /\ stack' = IF subdirs = {} THEN stack ELSE << subdirs >> \o stack

\* dirs[:] = [] and break
BreakInner(size) ==
    /\ dirs' = {}
    /\ files' = {}
    /\ root' = root
    /\ AfterInnerLoop(size, {})

\* the inner loop runs out of files
InnerLoopEnd ==
    /\ pc = "files"
    /\ files = {}
    /\ AfterInnerLoop(current_size_bytes, dirs)
    /\ UNCHANGED <<params, root, dirs, files, locals, output, outcome, visited, prev>>

Skip(f, why) ==
    /\ skipped_count' = skipped_count + 1
    /\ outcome' = [outcome EXCEPT ![f] = why]
    /\ UNCHANGED <<processed_content, current_size_bytes, included_count>>

\* file_name in exclude_files
SkipExcludedFile(f) ==
    /\ pc = "files"
    /\ NameExcluded(f)
    /\ Skip(f, "name")
    /\ Continue(f)
    /\ UNCHANGED <<params, output, visited, prev>>

\* file_ext not in include_extensions
SkipExtension(f) ==
    /\ pc = "files"
    /\ ~NameExcluded(f)
    /\ ~ExtensionAllowed(f)
    /\ Skip(f, "extension")
    /\ Continue(f)
    /\ UNCHANGED <<params, output, visited, prev>>

\* os.path.getsize raises OSError
SkipStatError(f) ==
    /\ pc = "files"
    /\ ~NameExcluded(f)
    /\ ExtensionAllowed(f)
    /\ StatFails(f)
    /\ Skip(f, "stat")
    /\ Continue(f)
    /\ UNCHANGED <<params, output, visited, prev>>

\* file_size_bytes > max_file_size_kb * 1024
SkipLargeFile(f) ==
    /\ pc = "files"
    /\ ~NameExcluded(f)
    /\ ExtensionAllowed(f)
    /\ ~StatFails(f)
    /\ Oversized(f)
    /\ Skip(f, "oversized")
    /\ Continue(f)
    /\ UNCHANGED <<params, output, visited, prev>>

Sized(f) ==
    /\ pc = "files"
    /\ ~NameExcluded(f)
    /\ ExtensionAllowed(f)
    /\ ~StatFails(f)
    /\ ~Oversized(f)

\* the budget pre-check trips: the file is counted as skipped, dirs is
\* cleared and the inner loop is left
BudgetSkip(f) ==
    /\ Sized(f)
    /\ BudgetPreCheck(f)
    /\ Skip(f, "budget")
    /\ BreakInner(current_size_bytes)
    /\ UNCHANGED <<params, output, visited, prev>>

\* mutant: no handler around open() and read(), the error ends the run at
\* the outer handler
SkipReadErrorUncaught(f) ==
    /\ Sized(f)
    /\ ~BudgetPreCheck(f)
    /\ ReadFails(f)
    /\ outcome' = [outcome EXCEPT ![f] = "read"]
    /\ pc' = "done"
    /\ UNCHANGED <<params, walk, locals, output, visited, prev>>

\* open() or read() raises: except Exception
SkipReadError(f) ==
    /\ Sized(f)
    /\ ~BudgetPreCheck(f)
    /\ ReadFails(f)
    /\ Skip(f, "read")
    /\ Continue(f)
    /\ UNCHANGED <<params, output, visited, prev>>

\* the file is read, rendered and appended, the size recomputed and the
\* post-check made
IncludeFile(f) ==
    /\ Sized(f)
    /\ ~BudgetPreCheck(f)
    /\ ~ReadFails(f)
    /\ LET content == Append(processed_content, Render(f))
           size == JoinedBytes(content)
       IN  /\ CanEncode(content)
           /\ processed_content' = content
           /\ current_size_bytes' = size
           /\ included_count' = included_count + 1
           /\ IF BudgetReached(size) THEN BreakInner(size) ELSE Continue(f)
    /\ outcome' = [outcome EXCEPT ![f] = "included"]
    /\ UNCHANGED <<params, skipped_count, output, visited, prev>>

\* the block is appended, then encoding the joined blocks raises: except
\* Exception counts the file as skipped and goes on
SkipEncodeError(f) ==
    /\ Sized(f)
    /\ ~BudgetPreCheck(f)
    /\ ~ReadFails(f)
    /\ LET content == Append(processed_content, Render(f))
       IN  /\ ~CanEncode(content)
           /\ processed_content' = content
    /\ skipped_count' = skipped_count + 1
    /\ outcome' = [outcome EXCEPT ![f] = "encode"]
    /\ Continue(f)
    /\ UNCHANGED <<params, current_size_bytes, included_count, output, visited, prev>>

\* the knowledge file: the header and the joined blocks, written when there
\* is a block; open(..., 'w') truncates the file before write() encodes
WriteOutput ==
    /\ pc = "write"
    /\ output' = IF processed_content = <<>> THEN output
                 ELSE IF CanEncode(processed_content)
                 THEN [exists |-> TRUE,
                       bytes |-> Len(repo_header(included_count, current_size_bytes))
                                 + JoinedBytes(processed_content)]
                 ELSE [exists |-> TRUE, bytes |-> 0]
    /\ pc' = "done"
    /\ UNCHANGED <<params, walk, locals, outcome, visited, prev>>

Next ==
    \/ WalkNext
    \/ WalkEnd
    \/ \E f \in files : SkipExcludedFile(f)
    \/ \E f \in files : SkipExtension(f)
    \/ \E f \in files : SkipStatError(f)
    \/ \E f \in files : SkipLargeFile(f)
    \/ \E f \in files : BudgetSkip(f)
    \/ \E f \in files : SkipReadError(f)
    \/ \E f \in files : IncludeFile(f)
    \/ \E f \in files : SkipEncodeError(f)
    \/ InnerLoopEnd
    \/ WriteOutput

Spec == Init /\ [][Next]_vars

(***************************************************************************)
(* A second run on the same, unchanged repository with the same             *)
(* parameters: the locals are created anew, the knowledge file of the       *)
(* first run stays on disk.  prev keeps what the first run accumulated.     *)
(***************************************************************************)
BudgetSkipped == \E f \in FileIds : outcome[f] = "budget"

\* a budget check tripped in the current run
Halted == BudgetSkipped \/ BudgetReached(current_size_bytes)

Rerun ==
    /\ pc = "done"
    /\ prev.runs = 0
    /\ prev' = [runs |-> 1, content |-> processed_content, halted |-> Halted]
    /\ stack' = << {RootDir} >>
    /\ root' = RootDir
    /\ dirs' = {}
    /\ files' = {}
    /\ processed_content' = <<>>
    /\ current_size_bytes' = 0
    /\ skipped_count' = 0
    /\ included_count' = 0
    /\ pc' = "walk"
    /\ outcome' = NoOutcome
    /\ visited' = {}
    /\ UNCHANGED <<params, output>>

NextRerun == Next \/ Rerun

SpecRerun == Init /\ [][NextRerun]_vars

(***************************************************************************)
(* What the properties speak of.                                            *)
(***************************************************************************)
Examined == {f \in FileIds : outcome[f] # "none"}

BlockFiles(blocks) == {blocks[i].file : i \in 1..Len(blocks)}

BlockSet(blocks) == {blocks[i] : i \in 1..Len(blocks)}

\* f is examined in this step
Examines(f) == outcome[f] = "none" /\ outcome'[f] # "none"

\* the bytes a block adds beyond the file's own content
Overhead(b) == Len(b.head) + Len(b.tail)

\* d, below the repository root, is named in exclude_dirs
ExcludedSubDir(d) == d # RootDir /\ InList(SubDirName(d), DefaultExcludeDirs)

\* f lies in an excluded directory of the repository or below one
InExcludedDir(f) == \E d \in DirChain(FileDir(f)) : ExcludedSubDir(d)

ExceedsFileLimit(f) == FileSize(f) > max_file_size_kb * 1024

NamedInExcludeFiles(f) == InList(FileName(f), DefaultExcludeFiles)

\* the extension of f is in the allow-list, letter case ignored
AllowedIgnoringCase(f) ==
    \E i \in 1..Len(include_extensions) :
        Lower(include_extensions[i]) = Lower(SplitExt(FileName(f)))

\* f passes every check of its own: name, extension, stat, size, read
Qualifies(f) ==
    /\ ~NamedInExcludeFiles(f)
    /\ InList(Lower(SplitExt(FileName(f))), include_extensions)
    /\ ~StatFails(f)
    /\ ~ExceedsFileLimit(f)
    /\ ~ReadFails(f)

RunState == <<outcome, visited, processed_content, current_size_bytes,
              skipped_count, included_count>>

(***************************************************************************)
(* The claims.                                                              *)
(***************************************************************************)

\* C1: once the budget pre-check has tripped on a file, the run is halted:
\* no further file is examined, included or counted and no further
\* directory is visited.
C1_PreCheckHaltsRun ==
    [][BudgetSkipped => RunState' = RunState]_vars

\* C2: the knowledge file written is never longer than max_output_size_kb *
\* 1024 bytes plus the rendering overhead of the one file whose append
\* tripped the post-check.
C2_DocumentWithinBudget ==
    (pc = "done" /\ output.exists) =>
        output.bytes <= max_output_size_kb * 1024
                        + (IF BudgetReached(current_size_bytes)
                           THEN Overhead(processed_content[Len(processed_content)])
                           ELSE 0)

\* C3: when a file has been appended and the recomputed size meets or
\* exceeds the budget, the run halts at once: the block is the last of
\* processed_content and is counted as included, the walk is left for the
\* write, and from then on nothing is examined, visited, included or counted.
C3_PostCheckHalts ==
    [][ /\ \A f \in FileIds :
              (Examines(f) /\ outcome'[f] = "included"
                 /\ current_size_bytes' >= max_output_size_kb * 1024)
              => /\ pc' = "write"
                 /\ processed_content'[Len(processed_content')].file = f
                 /\ Len(processed_content') = Len(processed_content) + 1
                 /\ included_count' = included_count + 1
        /\ current_size_bytes >= max_output_size_kb * 1024
              => (RunState' = RunState /\ pc' \in {"write", "done"}) ]_vars

\* C3, witness: a run halted by the post-check that left a file of a
\* directory it would have reached unexamined and a directory unvisited.
C3_Witness ==
    /\ pc = "done"
    /\ current_size_bytes >= max_output_size_kb * 1024
    /\ \E f \in tree : outcome[f] = "none" /\ ~InExcludedDir(f) /\ Qualifies(f)
    /\ \E d \in DirIds \ visited : \A a \in DirChain(d) : ~ExcludedSubDir(a)

\* C4, as claimed: no directory named in exclude_dirs is entered, at any
\* depth, and no file in such a directory or below it has a block.
C4_ExcludedDirsNeverEntered ==
    /\ \A d \in visited : ~InList(DirName(d), DefaultExcludeDirs)
    /\ \A f \in BlockFiles(processed_content) :
          \A d \in DirChain(FileDir(f)) : ~InList(DirName(d), DefaultExcludeDirs)

\* C4, amended: no directory below the repository root that is named in
\* exclude_dirs is entered, and no file in such a directory or below it has
\* a block; the root itself is walked whatever its name.
C4_ExcludedSubDirsNeverEntered ==
    /\ \A d \in visited : ~ExcludedSubDir(d)
    /\ \A f \in BlockFiles(processed_content) : ~InExcludedDir(f)

\* C4, witness: a complete run over a repository holding, in an excluded
\* directory and below one, files that qualify by themselves, while files
\* outside are included.
C4_Witness ==
    /\ pc = "done"
    /\ ~Halted
    /\ \E f \in tree : FileDir(f) = 5 /\ Qualifies(f)
    /\ \E f \in tree : FileDir(f) = 6 /\ Qualifies(f)
    /\ processed_content # <<>>

\* C5, as claimed: when the run is over, every file of the repository
\* larger than max_file_size_kb * 1024 is absent from the output and was
\* counted as skipped.
C5_OversizedAllCounted ==
    pc = "done" =>
        \A f \in tree :
            ExceedsFileLimit(f) =>
                /\ f \notin BlockFiles(processed_content)
                /\ outcome[f] \notin {"none", "included"}

\* C5, amended: no file larger than max_file_size_kb * 1024 has a block,
\* and each such file the traversal examines adds one to skipped_count and
\* nothing to the output; a file never examined is not counted.
C5_OversizedAbsentAndSkipped ==
    /\ [](\A f \in BlockFiles(processed_content) : ~ExceedsFileLimit(f))
    /\ [][\A f \in FileIds :
             (Examines(f) /\ ExceedsFileLimit(f))
             => /\ skipped_count' = skipped_count + 1
                /\ outcome'[f] \notin {"included", "encode"}
                /\ UNCHANGED <<processed_content, current_size_bytes, included_count>>]_vars

\* C5, witness: a file larger than the limit, with an allowed extension,
\* skipped for its size although the output budget would have held it.
C5_Witness ==
    \E f \in tree :
        /\ ExceedsFileLimit(f)
        /\ outcome[f] = "oversized"
        /\ current_size_bytes + FileSize(f) <= max_output_size_kb * 1024

\* C6: a file passes the extension check exactly when its extension equals
\* an entry of the allow-list, letter case ignored on both sides.
C6_ExtensionCaseInsensitive ==
    \A f \in FileIds :
        outcome[f] \notin {"none", "name"} =>
            (outcome[f] # "extension" <=> AllowedIgnoringCase(f))

\* C7, as claimed: two runs on the same repository with the same
\* parameters end with the same set of rendered blocks, whatever the
\* listing orders.
C7_SameBlockSet ==
    (pc = "done" /\ prev.runs = 1) =>
        BlockSet(processed_content) = BlockSet(prev.content)

\* C7, amended: two runs on the same repository with the same parameters
\* in neither of which a budget check trips end with the same set of
\* rendered blocks, whatever the listing orders.
C7_SameBlockSetUnlessHalted ==
    (pc = "done" /\ prev.runs = 1 /\ ~prev.halted /\ ~Halted) =>
        BlockSet(processed_content) = BlockSet(prev.content)

\* C7, witness: two complete runs without a budget halt whose blocks came
\* in different orders.
C7_Witness ==
    /\ pc = "done"
    /\ prev.runs = 1
    /\ ~prev.halted
    /\ ~Halted
    /\ Len(processed_content) >= 2
    /\ processed_content # prev.content

\* C8: a stat failure or a read failure on a file adds one to
\* skipped_count, adds no block, leaves the blocks, the running size and
\* included_count as they were, and the inner loop goes on with the next
\* file; a run in which no budget check trips ends with a block for every
\* file of a walked directory that qualifies.
C8_FailureSkipsOneFile ==
    /\ [][\A f \in FileIds :
             (Examines(f) /\ (StatFails(f) \/ ReadFails(f))
                /\ outcome'[f] \notin {"name", "extension", "oversized", "budget"})
             => /\ skipped_count' = skipped_count + 1
                /\ UNCHANGED <<processed_content, current_size_bytes, included_count>>
                /\ pc' = "files"
                /\ files' = files \ {f}
                /\ UNCHANGED <<stack, root, dirs>>]_vars
    /\ []((pc = "done" /\ ~Halted) =>
             \A f \in tree :
                 (Qualifies(f) /\ ~InExcludedDir(f))
                 => f \in BlockFiles(processed_content))

\* C8, witness: a complete run with a stat failure, a read failure and an
\* included file.
C8_Witness ==
    /\ pc = "done"
    /\ \E f \in tree : outcome[f] = "stat"
    /\ \E f \in tree : outcome[f] = "read"
    /\ \E f \in tree : outcome[f] = "included"

\* C9: a file whose name is in exclude_files never has a block, whatever
\* its extension; examining it adds exactly one to skipped_count and
\* changes nothing else; a repository of two allowed files that fit the
\* budget and one name-excluded file ends with included_count = 2 and
\* skipped_count = 1.
C9_NameExclusionFirst ==
    /\ [](\A f \in BlockFiles(processed_content) : ~NamedInExcludeFiles(f))
    /\ [][\A f \in FileIds :
             (Examines(f) /\ NamedInExcludeFiles(f))
             => /\ outcome'[f] = "name"
                /\ skipped_count' = skipped_count + 1
                /\ UNCHANGED <<processed_content, current_size_bytes, included_count>>]_vars
    /\ []((/\ pc = "done"
           /\ ~Halted
           /\ Cardinality(tree) = 3
           /\ \A f \in tree : ~InExcludedDir(f) /\ Encodable(FileName(f))
           /\ Cardinality({f \in tree : NamedInExcludeFiles(f)}) = 1
           /\ Cardinality({f \in tree : Qualifies(f)}) = 2)
          => (included_count = 2 /\ skipped_count = 1))

\* C9, witness: a finished run over two small allowed files and a
\* name-excluded file whose extension is allowed.
C9_Witness ==
    /\ pc = "done"
    /\ included_count = 2
    /\ skipped_count = 1
    /\ \E f \in tree :
          /\ outcome[f] = "name"
          /\ InList(Lower(SplitExt(FileName(f))), include_extensions)

\* C10: included_count is the number of blocks accumulated, and
\* included_count + skipped_count is the number of files examined.
C10_Accounting ==
    /\ included_count = Len(processed_content)
    /\ included_count + skipped_count = Cardinality(Examined)

====
